---- MODULE Spec2Model ----
(***************************************************************************)
(* Katzu waitlist & contact API (backend/main.py): process startup, the    *)
(* three request handlers, the Notion create-record call and the SMTP      *)
(* session of send_contact_email.                                          *)
(*                                                                         *)
(* Strings are sequences of one-character strings.  A JSON field value is  *)
(* a record [k, s]: k = "absent" (key not in the object), "nonstr" (null,  *)
(* number, bool, list, object: a value without .strip) or "str".           *)
(***************************************************************************)
EXTENDS Naturals, Sequences, FiniteSets

\* ------------------------------------------------------------- bounds
MaxLen == 3          \* longest e-mail string enumerated
MaxClock == 1        \* datetime.now() takes values 0..MaxClock
NumWorkers == 2      \* request slots of the hosting runtime

\* ------------------------------------------------------------ strings
Chars == {" ", "a", "@", "."}
Whitespace == {" "}
Strings(n) == UNION {[1..k -> Chars] : k \in 0..n}

RECURSIVE lstrip(_)
lstrip(s) == IF s # <<>> /\ Head(s) \in Whitespace THEN lstrip(Tail(s)) ELSE s

RECURSIVE rstrip(_)
rstrip(s) ==
    IF s # <<>> /\ s[Len(s)] \in Whitespace THEN rstrip(SubSeq(s, 1, Len(s) - 1)) ELSE s

\* str.strip(): leading and trailing whitespace removed, interior kept
strip(s) == rstrip(lstrip(s))

\* c in s
Contains(s, c) == \E i \in DOMAIN s : s[i] = c

NotSpecified == <<"N", "o", "t", " ", "s", "p", "e", "c", "i", "f", "i", "e", "d">>
StatusNew == <<"N", "e", "w">>

\* -------------------------------------------------------- JSON values
Absent == [k |-> "absent", s |-> <<>>]
NonStr == [k |-> "nonstr", s |-> <<>>]
Str(s) == [k |-> "str", s |-> s]

\* data.get(key, '')
get(data, key) == IF data[key].k = "absent" THEN Str(<<>>) ELSE data[key]

\* Values a field other than email takes: absent, non-string, "", " ", " a "
FieldVals == {Absent, NonStr, Str(<<>>), Str(<<" ">>), Str(<<" ", "a", " ">>)}
OptVals == {Absent, NonStr, Str(<<" ">>), Str(<<" ", "a", " ">>)}
EmailVals == {Absent, NonStr} \cup {Str(s) : s \in Strings(MaxLen)}

\* request.get_json(): raises (unparseable body, wrong content type), returns a
\* falsy value (None, {}, [], 0, "", false), a truthy non-object (list, number,
\* string, true) or a non-empty object.
NoFields ==
    [name |-> Absent, email |-> Absent, tracker |-> Absent,
     frequency |-> Absent, message |-> Absent]
BodyOf(kind) == [kind |-> kind, f |-> NoFields]
NonObjectBodies == {BodyOf("raises"), BodyOf("falsy"), BodyOf("nondict")}
WaitlistBodies ==
    NonObjectBodies \cup
    {[kind |-> "dict",
      f |-> [name |-> n, email |-> e, tracker |-> t, frequency |-> q, message |-> Absent]] :
        n \in FieldVals, e \in EmailVals, t \in OptVals, q \in OptVals}
ContactBodies ==
    NonObjectBodies \cup
    {[kind |-> "dict",
      f |-> [name |-> n, email |-> e, tracker |-> Absent, frequency |-> Absent, message |-> m]] :
        n \in FieldVals, e \in EmailVals, m \in FieldVals}

Request(method, path, body) == [method |-> method, path |-> path, body |-> body]
NoRequest == Request("", "", BodyOf("falsy"))

Requests ==
    {Request("GET", "/health", BodyOf("falsy"))}
    \cup {Request("GET", "/nowhere", BodyOf("falsy"))}
    \cup {Request(m, "/api/waitlist", b) : m \in {"POST", "OPTIONS"}, b \in WaitlistBodies}
    \cup {Request(m, "/api/contact", b) : m \in {"POST", "OPTIONS"}, b \in ContactBodies}

\* ---------------------------------------------------------- responses
\* jsonify({key: msg, ...}), status; the empty body of a preflight has no key
Response(status, key, msg) == [status |-> status, key |-> key, msg |-> msg]
NoResponse == Response(0, "", "")

\* -------------------------------------------------- process environment
\* os.environ.get(KEY): "None" when the variable is not set
EnvVals == {"None", "", "set"}
PortVals == {"None", "bad"}
Environments ==
    [NOTION_TOKEN : EnvVals, NOTION_DATABASE_ID : EnvVals,
     SMTP_USERNAME : EnvVals, SMTP_PASSWORD : EnvVals,
     SMTP_PORT : PortVals, PORT : PortVals]

\* Python truthiness of os.environ.get(KEY): None and "" are falsy
Falsy(v) == v \in {"None", ""}

\* int(os.environ.get(KEY, default)) raises ValueError on a non-numeric value
IntRaises(v) == v = "bad"

VARIABLES
    env,          \* os.environ, fixed for the life of the process
    phase,        \* "import", "main", "check_db", "run", "serving", "exited"
    exit_code,    \* status passed to exit(), 0 while running
    notion_auth,  \* auth of the module-level notion client
    DATABASE_ID,  \* module-level DATABASE_ID
    listening,    \* the port is bound (app.run reached)
    req,          \* req[w]: the request worker w serves
    pc,           \* pc[w]: where worker w stands in its handler
    parsed,       \* parsed[w]: request.get_json() has been invoked
    loc,          \* loc[w]: the handler's locals passed to send_contact_email
    msg,          \* msg[w]: the MIME message send_contact_email built
    calls,        \* calls[w]: collaborator calls issued for the request, in order
    obs,          \* obs[w]: what each of those calls did ("ok" / "raise")
    resp          \* resp[w]: the HTTP response

vars ==
    <<env, phase, exit_code, notion_auth, DATABASE_ID, listening,
      req, pc, parsed, loc, msg, calls, obs, resp>>
shared == <<env, notion_auth, DATABASE_ID>>
startup == <<env, phase, exit_code, notion_auth, DATABASE_ID, listening>>

Workers == 1..NumWorkers

NoArgs == [name |-> <<>>, email |-> <<>>, tracker |-> <<>>, frequency |-> <<>>, message |-> <<>>]
NoMsg == [From |-> "", To |-> "", name |-> <<>>, ReplyTo |-> <<>>, message |-> <<>>]

IdleWorkers ==
    /\ req = [w \in Workers |-> NoRequest]
    /\ pc = [w \in Workers |-> "idle"]
    /\ parsed = [w \in Workers |-> FALSE]
    /\ loc = [w \in Workers |-> NoArgs]
    /\ msg = [w \in Workers |-> NoMsg]
    /\ calls = [w \in Workers |-> <<>>]
    /\ obs = [w \in Workers |-> <<>>]
    /\ resp = [w \in Workers |-> NoResponse]

Init ==
    /\ env \in Environments
    /\ phase = "import"
    /\ exit_code = 0
    /\ notion_auth = "None"
    /\ DATABASE_ID = "None"
    /\ listening = FALSE
    /\ IdleWorkers

\* ------------------------------------------------------------- startup
\* notion = Client(auth=os.environ.get("NOTION_TOKEN")); DATABASE_ID = ...
ModuleInit ==
    /\ phase = "import"
    /\ notion_auth' = env.NOTION_TOKEN
    /\ DATABASE_ID' = env.NOTION_DATABASE_ID
    /\ phase' = "main"
    /\ UNCHANGED <<env, exit_code, listening, req, pc, parsed, loc, msg, calls, obs, resp>>

TokenMissing(e) == Falsy(e.NOTION_TOKEN)

\* the token tested a second time in place of the database id
DatabaseIdMissing_token(e) == Falsy(e.NOTION_TOKEN)

DatabaseIdMissing(e) == Falsy(e.NOTION_DATABASE_ID)

MainCheckToken ==
    /\ phase = "main"
    /\ IF TokenMissing(env)
         THEN phase' = "exited" /\ exit_code' = 1
         ELSE phase' = "check_db" /\ UNCHANGED exit_code
    /\ UNCHANGED <<env, notion_auth, DATABASE_ID, listening,
                   req, pc, parsed, loc, msg, calls, obs, resp>>

MainCheckDatabase ==
    /\ phase = "check_db"
    /\ IF DatabaseIdMissing(env)
         THEN phase' = "exited" /\ exit_code' = 1
         ELSE phase' = "run" /\ UNCHANGED exit_code
    /\ UNCHANGED <<env, notion_auth, DATABASE_ID, listening,
                   req, pc, parsed, loc, msg, calls, obs, resp>>

\* port = int(os.environ.get("PORT", 5000)); app.run(host, port)
MainRun ==
    /\ phase = "run"
    /\ IF IntRaises(env.PORT)
         THEN phase' = "exited" /\ exit_code' = 1 /\ UNCHANGED listening
         ELSE phase' = "serving" /\ listening' = TRUE /\ UNCHANGED exit_code
    /\ UNCHANGED <<env, notion_auth, DATABASE_ID, req, pc, parsed, loc, msg, calls, obs, resp>>

\* ----------------------------------------------------------- requests
Times == 0..MaxClock

\* what the code before the collaborator call decided: respond, or call with args
Stop(r) == [to |-> "done", resp |-> r, args |-> NoArgs]
Call(a) == [to |-> "call", resp |-> NoResponse, args |-> a]

\* the runtime hands a request of S to worker w
Receive(w, S) ==
    /\ phase = "serving"
    /\ pc[w] = "idle"
    /\ \E r \in S : req' = [req EXCEPT ![w] = r]
    /\ pc' = [pc EXCEPT ![w] = "dispatch"]
    /\ UNCHANGED <<startup, parsed, loc, msg, calls, obs, resp>>

\* return <response>: the handler of worker w is over
Finish(w, r) ==
    /\ resp' = [resp EXCEPT ![w] = r]
    /\ pc' = [pc EXCEPT ![w] = "done"]

\* the response has been written; the worker is free again
Reply(w) ==
    /\ pc[w] = "done"
    /\ req' = [req EXCEPT ![w] = NoRequest]
    /\ pc' = [pc EXCEPT ![w] = "idle"]
    /\ parsed' = [parsed EXCEPT ![w] = FALSE]
    /\ loc' = [loc EXCEPT ![w] = NoArgs]
    /\ msg' = [msg EXCEPT ![w] = NoMsg]
    /\ calls' = [calls EXCEPT ![w] = <<>>]
    /\ obs' = [obs EXCEPT ![w] = <<>>]
    /\ resp' = [resp EXCEPT ![w] = NoResponse]
    /\ UNCHANGED startup

Routes == {"/health", "/api/waitlist", "/api/contact"}

\* @app.errorhandler(404)
not_found(w) ==
    /\ pc[w] = "dispatch"
    /\ req[w].path \notin Routes
    /\ Finish(w, Response(404, "error", "Endpoint not found"))
    /\ UNCHANGED <<startup, req, parsed, loc, msg, calls, obs>>

\* a health check that probes the mail configuration
health_check_probe ==
    IF Falsy(env.SMTP_USERNAME)
      THEN Response(503, "status", "unhealthy")
      ELSE Response(200, "status", "healthy")

health_check_response == Response(200, "status", "healthy")

health_check(w) ==
    /\ pc[w] = "dispatch"
    /\ req[w].path = "/health"
    /\ Finish(w, health_check_response)
    /\ UNCHANGED <<startup, req, parsed, loc, msg, calls, obs>>

\* the method compared with a misspelt name: no request is a preflight
IsPreflight_typo(r) == r.method = "OPTION"

\* if request.method == 'OPTIONS': return '', 204
IsPreflight(r) == r.method = "OPTIONS"
PreflightResponse == Response(204, "", "")

\* if not name or not email
RequiredMissing(name, email) == name = <<>> \/ email = <<>>

\* if not name or not email or not message
RequiredMissing3(name, email, message) == name = <<>> \/ email = <<>> \/ message = <<>>

\* if '@' not in email or '.' not in email
EmailFormatBad(email) == ~Contains(email, "@") \/ ~Contains(email, ".")

\* the default forgotten
OrNotSpecified_raw(s) == strip(s)

\* data.get(key, '').strip() or 'Not specified', for a string value s
OrNotSpecified(s) == IF strip(s) = <<>> THEN NotSpecified ELSE strip(s)

\* x.strip() on a value without the method: AttributeError
StripRaises(v) == v.k = "nonstr"

waitlist_500 == Response(500, "error", "Failed to add to waitlist")
contact_500 == Response(500, "error", "Failed to send message")

\* the try block of add_to_waitlist up to the notion call
add_to_waitlist_try(body) ==
    IF body.kind = "raises" THEN Stop(waitlist_500)
    ELSE IF body.kind = "falsy" THEN Stop(Response(400, "error", "No data provided"))
    ELSE IF body.kind = "nondict" THEN Stop(waitlist_500)
    ELSE
      LET nameV == get(body.f, "name")
          emailV == get(body.f, "email")
      IN IF StripRaises(nameV) \/ StripRaises(emailV) THEN Stop(waitlist_500)
         ELSE
           LET name == strip(nameV.s)
               email == strip(emailV.s)
           IN IF RequiredMissing(name, email)
                THEN Stop(Response(400, "error", "Name and email are required"))
              ELSE IF EmailFormatBad(email)
                THEN Stop(Response(400, "error", "Invalid email format"))
              ELSE
                LET trackerV == get(body.f, "tracker")
                    frequencyV == get(body.f, "frequency")
                IN IF StripRaises(trackerV) \/ StripRaises(frequencyV)
                     THEN Stop(waitlist_500)
                     ELSE Call([name |-> name, email |-> email,
                                tracker |-> OrNotSpecified(trackerV.s),
                                frequency |-> OrNotSpecified(frequencyV.s),
                                message |-> <<>>])

\* the arguments of notion.pages.create
WaitlistPayload(a, signup_date) ==
    [parent |-> DATABASE_ID,
     Name |-> a.name,
     Email |-> a.email,
     FitnessTracker |-> a.tracker,
     RunningFrequency |-> a.frequency,
     SignupDate |-> signup_date,
     Status |-> StatusNew]

add_to_waitlist(w) ==
    /\ pc[w] = "dispatch"
    /\ req[w].path = "/api/waitlist"
    /\ IF IsPreflight(req[w])
         THEN /\ Finish(w, PreflightResponse)
              /\ UNCHANGED <<parsed, calls>>
         ELSE LET o == add_to_waitlist_try(req[w].body)
              IN /\ parsed' = [parsed EXCEPT ![w] = TRUE]
                 /\ IF o.to = "done"
                      THEN Finish(w, o.resp) /\ UNCHANGED calls
                      ELSE \E t \in Times :
                             /\ calls' = [calls EXCEPT ![w] =
                                  Append(@, [op |-> "notion.pages.create",
                                             arg |-> WaitlistPayload(o.args, t)])]
                             /\ pc' = [pc EXCEPT ![w] = "create"]
                             /\ UNCHANGED resp
    /\ UNCHANGED <<startup, req, loc, msg, obs>>

\* the create failure swallowed, as contact swallows a send failure
AfterCreate_swallow(raised) == Response(201, "success", "Successfully joined waitlist")

\* what add_to_waitlist answers once notion.pages.create returned or raised
AfterCreate(raised) ==
    IF raised THEN waitlist_500 ELSE Response(201, "success", "Successfully joined waitlist")

notion_pages_create(w) ==
    /\ pc[w] = "create"
    /\ \E raised \in BOOLEAN :
         /\ obs' = [obs EXCEPT ![w] = Append(@, IF raised THEN "raise" ELSE "ok")]
         /\ Finish(w, AfterCreate(raised))
    /\ UNCHANGED <<startup, req, parsed, loc, msg, calls>>

\* the try block of contact up to the call of send_contact_email
contact_try(body) ==
    IF body.kind = "raises" THEN Stop(contact_500)
    ELSE IF body.kind = "falsy" THEN Stop(Response(400, "error", "No data provided"))
    ELSE IF body.kind = "nondict" THEN Stop(contact_500)
    ELSE
      LET nameV == get(body.f, "name")
          emailV == get(body.f, "email")
          messageV == get(body.f, "message")
      IN IF StripRaises(nameV) \/ StripRaises(emailV) \/ StripRaises(messageV)
           THEN Stop(contact_500)
         ELSE
           LET name == strip(nameV.s)
               email == strip(emailV.s)
               message == strip(messageV.s)
           IN IF RequiredMissing3(name, email, message)
                THEN Stop(Response(400, "error", "Name, email, and message are required"))
              ELSE IF EmailFormatBad(email)
                THEN Stop(Response(400, "error", "Invalid email format"))
              ELSE Call([name |-> name, email |-> email, tracker |-> <<>>,
                         frequency |-> <<>>, message |-> message])

contact(w) ==
    /\ pc[w] = "dispatch"
    /\ req[w].path = "/api/contact"
    /\ IF IsPreflight(req[w])
         THEN /\ Finish(w, PreflightResponse)
              /\ UNCHANGED <<parsed, loc>>
         ELSE LET o == contact_try(req[w].body)
              IN /\ parsed' = [parsed EXCEPT ![w] = TRUE]
                 /\ IF o.to = "done"
                      THEN Finish(w, o.resp) /\ UNCHANGED loc
                      ELSE /\ loc' = [loc EXCEPT ![w] = o.args]
                           /\ pc' = [pc EXCEPT ![w] = "send_contact_email"]
                           /\ UNCHANGED resp
    /\ UNCHANGED <<startup, req, msg, calls, obs>>

\* the send failure surfaced to the caller
AfterSend_propagate(raised) ==
    IF raised THEN contact_500 ELSE Response(200, "success", "Message sent successfully")

\* what contact answers once send_contact_email returned or raised
AfterSend(raised) == Response(200, "success", "Message sent successfully")

\* if not smtp_username or not smtp_password
CredentialsMissing(e) == Falsy(e.SMTP_USERNAME) \/ Falsy(e.SMTP_PASSWORD)

\* login moved before STARTTLS
SmtpSteps_login_first == <<"SMTP", "login", "starttls", "send_message", "quit">>

\* the steps of the SMTP session, in the order of the code
SmtpSteps == <<"SMTP", "starttls", "login", "send_message", "quit">>
SmtpOps == {SmtpSteps[i] : i \in DOMAIN SmtpSteps}
SmtpIndex(step) == CHOOSE i \in DOMAIN SmtpSteps : SmtpSteps[i] = step

\* the statement that follows step in send_contact_email
SmtpAfter(step) ==
    IF SmtpIndex(step) = Len(SmtpSteps) THEN "return" ELSE SmtpSteps[SmtpIndex(step) + 1]

\* send_contact_email up to the first SMTP call: configuration, message
send_contact_email(w) ==
    /\ pc[w] = "send_contact_email"
    /\ IF IntRaises(env.SMTP_PORT) \/ CredentialsMissing(env)
         THEN /\ Finish(w, AfterSend(TRUE))
              /\ UNCHANGED msg
         ELSE /\ msg' = [msg EXCEPT ![w] =
                    [From |-> env.SMTP_USERNAME, To |-> "hello@katzu.app",
                     name |-> loc[w].name, ReplyTo |-> loc[w].email,
                     message |-> loc[w].message]]
              /\ pc' = [pc EXCEPT ![w] = SmtpSteps[1]]
              /\ UNCHANGED resp
    /\ UNCHANGED <<startup, req, parsed, loc, calls, obs>>

\* one call of the SMTP session: it returns, or it raises
smtp_call(w) ==
    /\ pc[w] \in SmtpOps
    /\ calls' = [calls EXCEPT ![w] =
         Append(@, [op |-> pc[w], arg |-> IF pc[w] = "send_message" THEN msg[w] ELSE NoMsg])]
    /\ \/ /\ obs' = [obs EXCEPT ![w] = Append(@, "ok")]
          /\ IF SmtpAfter(pc[w]) = "return"
               THEN Finish(w, AfterSend(FALSE))
               ELSE pc' = [pc EXCEPT ![w] = SmtpAfter(pc[w])] /\ UNCHANGED resp
       \/ /\ obs' = [obs EXCEPT ![w] = Append(@, "raise")]
          /\ Finish(w, AfterSend(TRUE))
    /\ UNCHANGED <<startup, req, parsed, loc, msg>>

\* --------------------------------------------------------------- specs
Handler(w) ==
    \/ not_found(w)
    \/ health_check(w)
    \/ add_to_waitlist(w)
    \/ notion_pages_create(w)
    \/ contact(w)
    \/ send_contact_email(w)
    \/ smtp_call(w)
    \/ Reply(w)

Startup == ModuleInit \/ MainCheckToken \/ MainCheckDatabase \/ MainRun

\* one request at a time (a single-threaded server), every body
Next ==
    \/ Startup
    \/ Receive(1, Requests)
    \/ \E w \in Workers : Handler(w)

Spec == Init /\ [][Next]_vars

\* the requests served concurrently
ConcRequests ==
    {Request("GET", "/health", BodyOf("falsy")),
     Request("GET", "/nowhere", BodyOf("falsy")),
     Request("OPTIONS", "/api/waitlist", BodyOf("raises")),
     Request("POST", "/api/waitlist", BodyOf("falsy")),
     Request("POST", "/api/waitlist",
             [kind |-> "dict",
              f |-> [NoFields EXCEPT !.name = Str(<<" ", "a", " ">>),
                                     !.email = Str(<<"@", ".">>)]]),
     Request("POST", "/api/contact",
             [kind |-> "dict",
              f |-> [NoFields EXCEPT !.name = Str(<<" ", "a", " ">>),
                                     !.email = Str(<<"@", ".">>),
                                     !.message = Str(<<" ", "a", " ">>)]])}

\* every worker serves, in any interleaving
NextConc ==
    \/ Startup
    \/ \E w \in Workers : Receive(w, ConcRequests)
    \/ \E w \in Workers : Handler(w)

SpecConc == Init /\ [][NextConc]_vars

\* ============================================================== claims
\* what the claims speak of, stated apart from the handlers' code

Done(w) == pc[w] = "done"
Post(w, path) == req[w].method = "POST" /\ req[w].path = path
ApiPaths == {"/api/waitlist", "/api/contact"}

\* t is s without its leading and trailing whitespace
IsTrimOf(t, s) ==
    \E i \in 1..(Len(s) + 1), j \in 0..Len(s) :
        /\ j >= i - 1
        /\ t = SubSeq(s, i, j)
        /\ \A k \in 1..(i - 1) : s[k] \in Whitespace
        /\ \A k \in (j + 1)..Len(s) : s[k] \in Whitespace
        /\ t # <<>> => (t[1] \notin Whitespace /\ t[Len(t)] \notin Whitespace)
TrimOf(s) ==
    CHOOSE t \in {SubSeq(s, i, j) : i \in 1..(Len(s) + 1), j \in 0..Len(s)} : IsTrimOf(t, s)

\* a field is missing: absent, or empty after trimming
FieldMissing(v) == v.k = "absent" \/ (v.k = "str" /\ TrimOf(v.s) = <<>>)
\* a field holds a string that is not empty after trimming
FieldGiven(v) == v.k = "str" /\ TrimOf(v.s) # <<>>
HasAtAndDot(s) == (\E i \in DOMAIN s : s[i] = "@") /\ (\E i \in DOMAIN s : s[i] = ".")
\* an optional field as the data model has it: a string or absent
OptionalTyped(v) == v.k \in {"absent", "str"}
\* the value the record carries for an optional field
OptionalOf(v) ==
    IF v.k = "absent" \/ TrimOf(v.s) = <<>> THEN NotSpecified ELSE TrimOf(v.s)

ValidWaitlist(b) ==
    /\ b.kind = "dict"
    /\ FieldGiven(b.f.name) /\ FieldGiven(b.f.email)
    /\ HasAtAndDot(TrimOf(b.f.email.s))
    /\ OptionalTyped(b.f.tracker) /\ OptionalTyped(b.f.frequency)

ValidContact(b) ==
    /\ b.kind = "dict"
    /\ FieldGiven(b.f.name) /\ FieldGiven(b.f.email) /\ FieldGiven(b.f.message)
    /\ HasAtAndDot(TrimOf(b.f.email.s))

\* C1: a POST to /api/waitlist whose body lacks name or email (absent, or empty
\* after trimming) is answered 400 and no create-record call is made for it.
C1_MissingRequired400 ==
    \A w \in Workers :
        (/\ Done(w) /\ Post(w, "/api/waitlist")
         /\ req[w].body.kind = "dict"
         /\ FieldMissing(req[w].body.f.name) \/ FieldMissing(req[w].body.f.email))
        => (resp[w].status = 400 /\ calls[w] = <<>>)

\* C2: a POST to /api/contact that passes validation is answered 200 with
\* success, whether send_contact_email returned, raised at the credential check
\* or raised at any step of the SMTP session.
C2_ContactAlways200 ==
    \A w \in Workers :
        (Done(w) /\ Post(w, "/api/contact") /\ ValidContact(req[w].body))
        => resp[w] = [status |-> 200, key |-> "success", msg |-> "Message sent successfully"]

C2_Witness ==
    \E w \in Workers :
        /\ Done(w) /\ Post(w, "/api/contact") /\ ValidContact(req[w].body)
        /\ Len(obs[w]) = 4 /\ obs[w][4] = "raise"
        /\ resp[w].status = 200

\* C3: a valid waitlist submission makes exactly one create-record call; the
\* answer is 201 exactly when that call returned, and 500 with an error field,
\* with no second call, when it raised.
C3_CreateExactlyOnce ==
    \A w \in Workers :
        (Post(w, "/api/waitlist") /\ ValidWaitlist(req[w].body))
        => /\ Len(calls[w]) <= 1
           /\ Done(w) =>
                /\ Len(calls[w]) = 1 /\ calls[w][1].op = "notion.pages.create"
                /\ Len(obs[w]) = 1
                /\ resp[w].status = 201 <=> obs[w][1] = "ok"
                /\ obs[w][1] = "raise" => (resp[w].status = 500 /\ resp[w].key = "error")

C3_Witness ==
    \E w \in Workers :
        /\ Done(w) /\ Post(w, "/api/waitlist") /\ ValidWaitlist(req[w].body)
        /\ obs[w] = <<"raise">> /\ Len(calls[w]) = 1 /\ resp[w].status = 500

\* the required fields of the route are all given a value (not missing)
RequiredPresent(r) ==
    /\ ~FieldMissing(r.body.f.name)
    /\ ~FieldMissing(r.body.f.email)
    /\ r.path = "/api/contact" => ~FieldMissing(r.body.f.message)

\* C4: a POST to /api/waitlist or /api/contact whose required fields are
\* present but whose trimmed email lacks "@" or "." is answered 400 and calls
\* no collaborator; an email with both is never rejected by the format check.
C4_EmailFormat400 ==
    \A w \in Workers :
        (/\ Done(w) /\ req[w].method = "POST" /\ req[w].path \in ApiPaths
         /\ req[w].body.kind = "dict"
         /\ RequiredPresent(req[w])
         /\ req[w].body.f.email.k = "str")
        => IF HasAtAndDot(TrimOf(req[w].body.f.email.s))
             THEN resp[w].msg # "Invalid email format"
             ELSE resp[w].status = 400 /\ calls[w] = <<>>

\* C5: a POST to /api/waitlist whose body is absent or unparseable is answered
\* 400, not 500, and calls no collaborator, both when get_json() returns an
\* empty value and when get_json() raises.
C5_BadBody400 ==
    \A w \in Workers :
        (Done(w) /\ Post(w, "/api/waitlist") /\ req[w].body.kind \in {"falsy", "raises"})
        => (resp[w].status = 400 /\ calls[w] = <<>>)

\* C6: an OPTIONS request to /api/waitlist or /api/contact is answered 204
\* with an empty body whatever its payload, before the body is parsed: nothing
\* is validated and no collaborator is called.
C6_PreflightShortCircuit ==
    \A w \in Workers :
        (req[w].method = "OPTIONS" /\ req[w].path \in ApiPaths)
        => /\ pc[w] \in {"dispatch", "done"}
           /\ ~parsed[w] /\ calls[w] = <<>> /\ obs[w] = <<>>
           /\ Done(w) => resp[w] = [status |-> 204, key |-> "", msg |-> ""]

C6_Witness ==
    \E w \in Workers :
        /\ Done(w) /\ req[w].method = "OPTIONS" /\ req[w].path = "/api/waitlist"
        /\ ValidWaitlist(req[w].body)
        /\ resp[w].status = 204

\* C7: when NOTION_TOKEN or NOTION_DATABASE_ID is absent (unset or empty) the
\* process exits with a nonzero status before the port is bound: the server
\* never listens, nor serves, with either value missing.
C7_FailFast ==
    (Falsy(env.NOTION_TOKEN) \/ Falsy(env.NOTION_DATABASE_ID))
    => /\ ~listening
       /\ phase \notin {"run", "serving"}
       /\ phase = "exited" => exit_code # 0

C7_Witness ==
    /\ ~Falsy(env.NOTION_TOKEN) /\ env.NOTION_DATABASE_ID = "None"
    /\ phase = "exited" /\ exit_code = 1 /\ ~listening

\* C8: the record passed to the create-record call for a valid waitlist
\* submission carries Fitness Tracker = "Not specified" when tracker is absent
\* or empty after trimming and the trimmed tracker otherwise, likewise Running
\* Frequency; Status is "New"; Name and Email are the trimmed inputs.
C8_PayloadDefaults ==
    \A w \in Workers :
        (Post(w, "/api/waitlist") /\ ValidWaitlist(req[w].body) /\ calls[w] # <<>>)
        => LET p == calls[w][1].arg
               f == req[w].body.f
           IN /\ p.FitnessTracker = OptionalOf(f.tracker)
              /\ p.RunningFrequency = OptionalOf(f.frequency)
              /\ p.Status = <<"N", "e", "w">>
              /\ p.Name = TrimOf(f.name.s)
              /\ p.Email = TrimOf(f.email.s)

C8_Witness ==
    \E w \in Workers :
        /\ Post(w, "/api/waitlist") /\ ValidWaitlist(req[w].body)
        /\ req[w].body.f.tracker.k = "absent"
        /\ req[w].body.f.frequency = Str(<<" ", "a", " ">>)
        /\ calls[w] # <<>>
        /\ calls[w][1].arg.FitnessTracker = NotSpecified
        /\ calls[w][1].arg.RunningFrequency = <<"a">>

\* the operations of the calls made for worker w's request, in order
CallOps(w) == [i \in 1..Len(calls[w]) |-> calls[w][i].op]

\* C10: the SMTP steps run only in the order connect, STARTTLS, login,
\* send_message, quit, each only after every earlier one returned; with the
\* username or password not configured no connection is opened.
C10_SmtpOrder ==
    \A w \in Workers :
        req[w].path = "/api/contact"
        => /\ Len(obs[w]) = Len(calls[w])
           /\ \A i \in 1..Len(calls[w]) :
                /\ i <= 5
                /\ CallOps(w)[i] = <<"SMTP", "starttls", "login", "send_message", "quit">>[i]
                /\ \A k \in 1..(i - 1) : obs[w][k] = "ok"
           /\ (Falsy(env.SMTP_USERNAME) \/ Falsy(env.SMTP_PASSWORD)) => calls[w] = <<>>

C10_Witness ==
    \E w \in Workers :
        /\ Done(w) /\ req[w].path = "/api/contact"
        /\ CallOps(w) = <<"SMTP", "starttls", "login", "send_message", "quit">>
        /\ obs[w] = <<"ok", "ok", "ok", "ok", "ok">>

\* everything worker w holds for its request
Slot(w) == <<req[w], pc[w], parsed[w], loc[w], msg[w], calls[w], obs[w], resp[w]>>

\* the time stamped on the record of worker w's request, 0 when there is none
StampOf(w) == IF calls[w] # <<>> /\ calls[w][1].op = "notion.pages.create"
                THEN calls[w][1].arg.SignupDate ELSE 0

\* two served requests that are the same request, met the same collaborator
\* outcomes and read the same clock got the same response and made the same calls
C9_SameAsAlone ==
    \A w1, w2 \in Workers :
        (/\ Done(w1) /\ Done(w2)
         /\ req[w1] = req[w2]
         /\ obs[w1] = obs[w2]
         /\ StampOf(w1) = StampOf(w2))
        => (resp[w1] = resp[w2] /\ calls[w1] = calls[w2])

C9_HealthFixed ==
    \A w \in Workers :
        (Done(w) /\ req[w].path = "/health")
        => /\ resp[w] = [status |-> 200, key |-> "status", msg |-> "healthy"]
           /\ calls[w] = <<>>

\* a step of the serving process leaves the shared configuration alone and
\* changes what at most one worker holds
C9_StepIsLocal ==
    phase = "serving"
    => /\ shared' = shared
       /\ \A w1, w2 \in Workers :
            (Slot(w1)' # Slot(w1) /\ Slot(w2)' # Slot(w2)) => w1 = w2

\* C9: served concurrently in any interleaving, no handler writes shared state;
\* a request's response and collaborator calls depend only on its own body and
\* on its own collaborators' outcomes; GET /health is 200 with the fixed payload
\* in every interleaving.
C9_Isolation == [](C9_SameAsAlone /\ C9_HealthFixed) /\ [][C9_StepIsLocal]_vars

C9_Witness ==
    \E w1, w2 \in Workers :
        /\ w1 # w2
        /\ Done(w1) /\ req[w1].path = "/health" /\ resp[w1].status = 200
        /\ pc[w2] = "login"

====
